---- MODULE Spec2Model ----
(***************************************************************************)
(* Model of keymap_drawer.draw: KeymapDrawer (draw.py) and UtilsMixin      *)
(* (utils.py).  The drawer holds a config, a keymap (ordered layers of     *)
(* LayoutKeys), a physical layout and an output sink; its methods append   *)
(* SVG markup to the sink.                                                 *)
(*                                                                         *)
(* Strings are sequences of one-character strings.  Numbers that Python    *)
(* holds as floats are fixed-point integers counting 1/Scale units; the    *)
(* inputs are multiples of 1/2, so every value the code computes (at most  *)
(* one halving of an input) is exact in this representation.               *)
(***************************************************************************)
EXTENDS Integers, Sequences, FiniteSets, TLC

VARIABLES cfg, layout, layers, combos, out, call, legends, ncalls, args, layers0

vars == <<cfg, layout, layers, combos, out, call, legends, ncalls, args, layers0>>

\* no call made yet
NoCall == [op |-> "none"]

\* ------------------------------------------------------------------ bounds

MaxLen == 5

MaxTap == 5

NumKeys == 2

MaxCalls == 2

\* ------------------------------------------------------------ characters

SP == " "
TAB == "\t"
NUL == "NUL"

Whitespace == {SP, TAB}

Alphabet == {"a", "b", SP, TAB, NUL}

RECURSIVE SeqsUpTo(_, _)
SeqsUpTo(S, n) ==
  IF n = 0 THEN {<<>>}
  ELSE LET shorter == SeqsUpTo(S, n - 1)
       IN  shorter \cup {Append(s, c) : s \in {t \in shorter : Len(t) = n - 1}, c \in S}

Texts == SeqsUpTo(Alphabet, MaxLen)

\* ------------------------------------------------- utils.py: _split_text

\* str.replace(old, new) for a two-character old: leftmost, non-overlapping
RECURSIVE ReplacePair(_, _, _, _)
ReplacePair(s, c1, c2, new) ==
  IF Len(s) = 0 THEN <<>>
  ELSE IF Len(s) >= 2 /\ s[1] = c1 /\ s[2] = c2
       THEN <<new>> \o ReplacePair(SubSeq(s, 3, Len(s)), c1, c2, new)
       ELSE <<s[1]>> \o ReplacePair(Tail(s), c1, c2, new)

\* str.replace(old, new) for a one-character old
ReplaceChar(s, old, new) == [i \in 1..Len(s) |-> IF s[i] = old THEN new ELSE s[i]]

\* str.split() without arguments: the maximal runs of non-whitespace
RECURSIVE SplitFrom(_, _)
SplitFrom(s, cur) ==
  IF Len(s) = 0 THEN (IF cur = <<>> THEN <<>> ELSE <<cur>>)
  ELSE IF s[1] \in Whitespace
       THEN (IF cur = <<>> THEN <<>> ELSE <<cur>>) \o SplitFrom(Tail(s), <<>>)
       ELSE SplitFrom(Tail(s), Append(cur, s[1]))

split(s) == SplitFrom(s, <<>>)

_split_text_split_first(text) ==
  LET ws == split(text)
  IN  [i \in 1..Len(ws) |-> ReplaceChar(ReplacePair(ws[i], SP, SP, NUL), NUL, SP)]

_split_text(text) ==
  LET ws == split(ReplacePair(text, SP, SP, NUL))
  IN  [i \in 1..Len(ws) |-> ReplaceChar(ws[i], NUL, SP)]

\* ------------------------------------------------------- numbers, Point

\* one unit of length is Scale fixed-point steps
Scale == 4

FP(n) == n * Scale

Half(v) == v \div 2

\* the integer nearest to v / Scale, a tie going to the even one: Python 3 round()
PyRoundInt(v) ==
  LET q == v \div Scale
      r == v % Scale
  IN  IF 2 * r < Scale THEN q
      ELSE IF 2 * r > Scale THEN q + 1
      ELSE IF q % 2 = 0 THEN q ELSE q + 1

round(v) == FP(PyRoundInt(v))

\* physical_layout.Point and its + and -
Point(x, y) == [x |-> x, y |-> y]
PAdd(a, b) == Point(a.x + b.x, a.y + b.y)
PSub(a, b) == Point(a.x - b.x, a.y - b.y)

Max(a, b) == IF a >= b THEN a ELSE b

\* ------------------------------------------------------ html.escape

EscapeChar(c) ==
  CASE c = "&" -> "&amp;"
    [] c = "<" -> "&lt;"
    [] c = ">" -> "&gt;"
    [] c = "\"" -> "&quot;"
    [] c = "'" -> "&#x27;"
    [] OTHER -> c

escape(s) == [i \in 1..Len(s) |-> EscapeChar(s[i])]

\* ------------------------------------------------- utils.py: primitives

\* the class attribute: the non-empty classes in order, <<>> for no attribute
_to_class_str(classes) ==
  IF classes = <<>> THEN <<>> ELSE SelectSeq(classes, LAMBDA c : c # "")

_draw_rect(config, p, dims, radii, classes) ==
  << [tag |-> "rect",
      rx |-> round(radii.x), ry |-> round(radii.y),
      x |-> round(p.x - Half(dims.x)), y |-> round(p.y - Half(dims.y)),
      width |-> round(dims.x), height |-> round(dims.y),
      class |-> _to_class_str(classes)] >>

_draw_key(config, p, dims, classes) ==
  IF config.draw_key_sides
  THEN _draw_rect(config, p, dims, Point(config.key_rx, config.key_ry), classes \o <<"side">>)
       \o _draw_rect(config,
                     PSub(p, Point(config.key_side_pars.rel_x, config.key_side_pars.rel_y)),
                     PSub(dims, Point(config.key_side_pars.rel_w, config.key_side_pars.rel_h)),
                     Point(config.key_side_pars.rx, config.key_side_pars.ry),
                     classes)
  ELSE _draw_rect(config, p, dims, Point(config.key_rx, config.key_ry), classes)

\* the font-size percentage of the style attribute, 0 for no attribute;
\* format(x, ".0f") rounds a tie to even
_get_scaling(config, width) ==
  IF config.shrink_wide_legends = 0 \/ width <= config.shrink_wide_legends
  THEN 0
  ELSE LET n == 100 * config.shrink_wide_legends
           q == n \div width
           r == n % width
           pct == IF 2 * r < width THEN q
                  ELSE IF 2 * r > width THEN q + 1
                  ELSE IF q % 2 = 0 THEN q ELSE q + 1
       IN  Max(60, pct)

_draw_text(config, p, word, classes) ==
  IF word = <<>> THEN <<>>
  ELSE << [tag |-> "text", x |-> round(p.x), y |-> round(p.y),
           class |-> _to_class_str(classes),
           scaling |-> _get_scaling(config, Len(word)),
           content |-> escape(word)] >>

MaxWordLen(words) ==
  CHOOSE n \in {Len(words[i]) : i \in 1..Len(words)} :
    \A i \in 1..Len(words) : Len(words[i]) <= n

\* words has two or more entries; dy of the first tspan is -dy_0 em, of the
\* others line_spacing em
_draw_textblock(config, p, words, classes, shift) ==
  LET dy_0 == (Len(words) - 1) * Half(config.line_spacing * (1 + shift))
  IN  << [tag |-> "text", x |-> round(p.x), y |-> round(p.y),
          class |-> _to_class_str(classes),
          scaling |-> _get_scaling(config, MaxWordLen(words)),
          content |-> <<>>],
         [tag |-> "tspan", x |-> p.x, dy |-> 0 - dy_0, content |-> escape(words[1])] >>
      \o [i \in 1..(Len(words) - 1) |->
            [tag |-> "tspan", x |-> p.x, dy |-> config.line_spacing,
             content |-> escape(words[i + 1])]]
      \o << [tag |-> "/text"] >>

\* glyph.py: a legend of the form $$name$$ names a glyph; <<>> for none
legend_is_glyph(word) ==
  IF Len(word) >= 1 /\ word[1] = "$" THEN word ELSE <<>>

\* glyph.py: (width, height, d_y) of a glyph in a legend slot
get_glyph_dimensions(config, name, legend_type) ==
  LET height == IF legend_type = "tap" THEN config.glyph_tap_size
                ELSE IF legend_type = "hold" THEN config.glyph_hold_size
                ELSE config.glyph_shifted_size
      d_y == IF legend_type = "tap" THEN Half(height)
             ELSE IF legend_type = "hold" THEN height
             ELSE 0
  IN  <<height, height, d_y>>

_draw_glyph(config, p, name, legend_type, classes) ==
  LET dim == get_glyph_dimensions(config, name, legend_type)
  IN  << [tag |-> "use", href |-> name,
          x |-> round(p.x - Half(dim[1])), y |-> round(p.y - dim[3]),
          height |-> dim[2], width |-> dim[1],
          class |-> _to_class_str(classes \o <<"glyph", "glyph-name">>)] >>

_draw_legend(config, p, words, classes, legend_type, shift) ==
  IF words = <<>> THEN <<>>
  ELSE IF Len(words) = 1
       THEN IF legend_is_glyph(words[1]) # <<>>
            THEN _draw_glyph(config, p, legend_is_glyph(words[1]), legend_type,
                             classes \o <<legend_type>>)
            ELSE _draw_text(config, p, words[1], classes \o <<legend_type>>)
       ELSE _draw_textblock(config, p, words, classes \o <<legend_type>>, shift)

\* ------------------------------------------------- draw.py: print_key

\* keymap.LayoutKey; LayoutKey() has every field empty
LayoutKey(type, tap, hold, shifted) ==
  [type |-> type, tap |-> tap, hold |-> hold, shifted |-> shifted]

EmptyLayoutKey == LayoutKey("", <<>>, <<>>, <<>>)

\* the shift print_key computes for the tap legend, without the test on hold
TapShiftIgnoringHold(l_key) ==
  IF Len(_split_text(l_key.tap)) = 2
  THEN IF l_key.shifted # <<>> THEN 0 - 1
       ELSE IF l_key.hold # <<>> /\ l_key.shifted = <<>> THEN 1
       ELSE 0
  ELSE 0

\* the shift print_key computes for the tap legend
TapShift(l_key) ==
  IF Len(_split_text(l_key.tap)) = 2
  THEN IF l_key.shifted # <<>> /\ l_key.hold = <<>> THEN 0 - 1
       ELSE IF l_key.hold # <<>> /\ l_key.shifted = <<>> THEN 1
       ELSE 0
  ELSE 0

\* the _draw_legend calls of one print_key, in order
LegendCalls(l_key, key_ind) ==
  << [key_ind |-> key_ind, legend_type |-> "tap",
      words |-> _split_text(l_key.tap), shift |-> TapShift(l_key)],
     [key_ind |-> key_ind, legend_type |-> "hold", words |-> <<l_key.hold>>, shift |-> 0],
     [key_ind |-> key_ind, legend_type |-> "shifted", words |-> <<l_key.shifted>>, shift |-> 0] >>

print_key(config, p_0, p_key, l_key, key_ind) ==
  LET p == PAdd(p_0, p_key.pos)
      w == p_key.width
      h == p_key.height
      r == p_key.rotation
      tap_shift == IF config.draw_key_sides
                   THEN PSub(Point(config.legend_rel_x, config.legend_rel_y),
                             Point(config.key_side_pars.rel_x, config.key_side_pars.rel_y))
                   ELSE Point(config.legend_rel_x, config.legend_rel_y)
      edge == Point(0, Half(h) - config.inner_pad_h - config.small_pad)
      lc == LegendCalls(l_key, key_ind)
  IN  << [tag |-> "g",
          transform |-> IF r # 0 THEN <<r, round(p.x), round(p.y)>> ELSE <<>>,
          class |-> _to_class_str(<<"key", l_key.type, "keypos-" \o ToString(key_ind)>>)] >>
      \o _draw_key(config, p,
                   Point(w - 2 * config.inner_pad_w, h - 2 * config.inner_pad_h),
                   <<"key", l_key.type>>)
      \o _draw_legend(config, PAdd(p, tap_shift), lc[1].words, <<"key", l_key.type>>,
                      "tap", lc[1].shift)
      \o _draw_legend(config, PAdd(p, edge), lc[2].words, <<"key", l_key.type>>, "hold", 0)
      \o _draw_legend(config, PSub(p, edge), lc[3].words, <<"key", l_key.type>>, "shifted", 0)
      \o << [tag |-> "/g"] >>

\* ------------------------------------------------- draw.py: print_layer

Min(a, b) == IF a <= b THEN a ELSE b

\* zip(self.layout.keys, layer_keys) stops at the shorter of the two
ZipLen(lay, layer_keys) == Min(Len(lay.keys), Len(layer_keys))

RECURSIVE Flatten(_)
Flatten(ss) == IF ss = <<>> THEN <<>> ELSE Head(ss) \o Flatten(Tail(ss))

print_layer(config, lay, p_0, layer_keys, empty_layer) ==
  Flatten([i \in 1..ZipLen(lay, layer_keys) |->
             print_key(config, p_0, lay.keys[i],
                       IF empty_layer THEN EmptyLayoutKey ELSE layer_keys[i], i - 1)])

print_layer_legends(lay, layer_keys, empty_layer) ==
  Flatten([i \in 1..ZipLen(lay, layer_keys) |->
             LegendCalls(IF empty_layer THEN EmptyLayoutKey ELSE layer_keys[i], i - 1)])

\* ------------------------------------------- draw.py: print_layer_header

print_layer_header(config, p, header) ==
  << [tag |-> "text", x |-> p.x, y |-> p.y, class |-> <<"label">>,
      content |-> escape(IF config.append_colon_to_layer_header
                         THEN header \o <<":">> ELSE header)] >>

\* ------------------------------------------------- draw.py: print_board

\* keymap.layers is an ordered dict: a sequence of [name, keys] with
\* distinct names, in insertion order
LayerNamesOf(ls) == [i \in 1..Len(ls) |-> ls[i].name]

Range(f) == {f[i] : i \in DOMAIN f}

HasLayer(ls, name) == \E i \in 1..Len(ls) : ls[i].name = name

\* layers = self.keymap.layers, with no copy: the Layer objects are shared
SameObjects(ls) == [aliased |-> TRUE, value |-> ls]

\* deepcopy(self.keymap.layers): equal value, no object shared
deepcopy(ls) == [aliased |-> FALSE, value |-> ls]

\* self.keymap.layers once the working layers have been written to
KeymapAfter(copy, keymap_layers, working) ==
  IF copy.aliased
  THEN [i \in 1..Len(keymap_layers) |->
          IF HasLayer(working, keymap_layers[i].name)
          THEN CHOOSE l \in Range(working) : l.name = keymap_layers[i].name
          ELSE keymap_layers[i]]
  ELSE keymap_layers

\* any(l in layers for l in draw_layers)
AnySelected(ls, draw_layers) ==
  \E i \in 1..Len(draw_layers) : HasLayer(ls, draw_layers[i])

\* all(l in layers for l in draw_layers)
AllSelected(ls, draw_layers) ==
  \A i \in 1..Len(draw_layers) : HasLayer(ls, draw_layers[i])

\* the layers picked in the order of draw_layers, one per entry
FilterInRequestOrder(ls, draw_layers) ==
  [i \in 1..Len(draw_layers) |-> CHOOSE l \in Range(ls) : l.name = draw_layers[i]]

\* {name: layer for name, layer in layers.items() if name in draw_layers}
FilterLayers(ls, draw_layers) ==
  SelectSeq(ls, LAMBDA l : l.name \in Range(draw_layers))

\* 0 <= key_position < len(self.layout)
GhostPositionValid(lay, key_position) ==
  0 <= key_position /\ key_position < Len(lay.keys)

\* layer[key_position].type = "ghost" for every layer
SetGhost(ls, key_position) ==
  [i \in 1..Len(ls) |->
     [ls[i] EXCEPT !.keys[key_position + 1].type = "ghost"]]

\* the loop over ghost_keys: stops at the first position the assert rejects,
\* the positions before it being written already
RECURSIVE GhostLoop(_, _, _)
GhostLoop(lay, ls, ghost_keys) ==
  IF ghost_keys = <<>> THEN [ok |-> TRUE, layers |-> ls]
  ELSE IF ~GhostPositionValid(lay, Head(ghost_keys))
       THEN [ok |-> FALSE, layers |-> ls]
       ELSE GhostLoop(lay, SetGhost(ls, Head(ghost_keys)), Tail(ghost_keys))

\* keymap.get_combos_per_layer: the combos of each of the given layers
get_combos_per_layer(cmb, ls) ==
  [n \in Range(LayerNamesOf(ls)) |-> cmb[n]]

NoCombos(ls) == [n \in Range(LayerNamesOf(ls)) |-> <<>>]

RECURSIVE MaxOver(_, _)
MaxOver(cs, field) ==
  IF cs = <<>> THEN 0 ELSE Max(Head(cs)[field], MaxOver(Tail(cs), field))

\* combo.get_offsets_per_layer: the room the combos of a layer need above
\* and below it, (0, 0) without combos
get_offsets_per_layer(combos_per_layer) ==
  [n \in DOMAIN combos_per_layer |->
     <<MaxOver(combos_per_layer[n], "top"), MaxOver(combos_per_layer[n], "bot")>>]

\* combo.print_combos_for_layer: the overlay of each combo, drawn at p
print_combos_for_layer(p, cs) ==
  [i \in 1..Len(cs) |-> [tag |-> "combo", x |-> p.x, y |-> p.y]]

RECURSIVE SumOffsets(_, _)
SumOffsets(ls, offsets_per_layer) ==
  IF ls = <<>> THEN 0
  ELSE offsets_per_layer[Head(ls).name][1] + offsets_per_layer[Head(ls).name][2]
       + SumOffsets(Tail(ls), offsets_per_layer)

\* the height with one outer_pad_h per layer and none after the last
board_h_pad_per_layer(config, lay, ls, offsets_per_layer) ==
  Len(ls) * lay.height + Len(ls) * config.outer_pad_h
  + SumOffsets(ls, offsets_per_layer)

board_h(config, lay, ls, offsets_per_layer) ==
  Len(ls) * lay.height + (Len(ls) + 1) * config.outer_pad_h
  + SumOffsets(ls, offsets_per_layer)

board_w(config, lay) == lay.width + 2 * config.outer_pad_w

\* the step of the cursor after a layer without its bottom offset
AfterLayerNoBottom(lay, p, offsets) == PAdd(p, Point(0, lay.height))

\* p += Point(0, self.layout.height + offsets_per_layer[name][1])
AfterLayer(lay, p, offsets) == PAdd(p, Point(0, lay.height + offsets[2]))

\* the cursor before the i-th layer of ls (from 1), the loop starting at start
RECURSIVE CursorBefore(_, _, _, _, _, _)
CursorBefore(config, lay, ls, offsets_per_layer, start, i) ==
  IF i = 1 THEN start
  ELSE AfterLayer(lay,
                  PAdd(CursorBefore(config, lay, ls, offsets_per_layer, start, i - 1),
                       Point(0, config.outer_pad_h + offsets_per_layer[ls[i - 1].name][1])),
                  offsets_per_layer[ls[i - 1].name])

\* one turn of the loop over the layers, the cursor being p
DrawLayer(config, lay, layer, cs, offsets, combos_only, p) ==
  << [tag |-> "g", class |-> <<"layer-" \o layer.name>>, transform |-> <<>>] >>
  \o print_layer_header(config, PAdd(p, Point(0, Half(config.outer_pad_h))), <<layer.name>>)
  \o print_layer(config, lay, PAdd(p, Point(0, config.outer_pad_h + offsets[1])),
                 layer.keys, combos_only)
  \o print_combos_for_layer(PAdd(p, Point(0, config.outer_pad_h + offsets[1])), cs)
  \o << [tag |-> "/g"] >>

\* the loop over the layers, from cursor start: what it writes, the origins
\* it hands to print_layer and the cursor it ends at
DrawLayers(config, lay, ls, combos_per_layer, offsets_per_layer, combos_only, start) ==
  [out |-> Flatten([i \in 1..Len(ls) |->
             DrawLayer(config, lay, ls[i], combos_per_layer[ls[i].name],
                       offsets_per_layer[ls[i].name], combos_only,
                       CursorBefore(config, lay, ls, offsets_per_layer, start, i))]),
   origins |-> [i \in 1..Len(ls) |->
                  PAdd(CursorBefore(config, lay, ls, offsets_per_layer, start, i),
                       Point(0, config.outer_pad_h + offsets_per_layer[ls[i].name][1]))],
   legends |-> Flatten([i \in 1..Len(ls) |->
                          print_layer_legends(lay, ls[i].keys, combos_only)]),
   p |-> CursorBefore(config, lay, ls, offsets_per_layer, start, Len(ls) + 1)]

print_board(config, lay, keymap_layers, cmb, draw_layers, keys_only, combos_only, ghost_keys) ==
  LET copy == deepcopy(keymap_layers)
      selected == IF draw_layers # <<>>
                  THEN FilterLayers(copy.value, draw_layers) ELSE copy.value
      ghosted == IF ghost_keys # <<>>
                 THEN GhostLoop(lay, selected, ghost_keys)
                 ELSE [ok |-> TRUE, layers |-> selected]
      ls == ghosted.layers
      combos_per_layer == IF ~keys_only THEN get_combos_per_layer(cmb, ls) ELSE NoCombos(ls)
      offsets_per_layer == get_offsets_per_layer(combos_per_layer)
      w == board_w(config, lay)
      h == board_h(config, lay, ls, offsets_per_layer)
      drawn == DrawLayers(config, lay, ls, combos_per_layer, offsets_per_layer, combos_only,
                          Point(config.outer_pad_w, 0))
      failed(keymap) == [status |-> "AssertionError", out |-> <<>>, legends |-> <<>>,
                         keymap |-> keymap, origins |-> <<>>, offsets |-> <<>>,
                         cursor |-> Point(0, 0)]
  IN  IF draw_layers # <<>> /\ ~AllSelected(copy.value, draw_layers)
      THEN failed(keymap_layers)
      ELSE IF ~ghosted.ok
      THEN failed(KeymapAfter(copy, keymap_layers, ls))
      ELSE [status |-> "ok",
            out |-> << [tag |-> "svg", width |-> w, height |-> h, viewBox |-> <<0, 0, w, h>>],
                       [tag |-> "defs"],
                       [tag |-> "style", content |-> config.svg_style] >>
                    \o drawn.out
                    \o << [tag |-> "/svg"] >>,
            legends |-> drawn.legends,
            keymap |-> KeymapAfter(copy, keymap_layers, ls),
            origins |-> drawn.origins,
            offsets |-> offsets_per_layer,
            cursor |-> drawn.p]

\* --------------------------------------------------------------- inputs

\* config.DrawConfig: lengths in fixed-point steps, all multiples of 1/2
BaseCfg ==
  [append_colon_to_layer_header |-> TRUE,
   inner_pad_w |-> 2, inner_pad_h |-> 2, small_pad |-> 2,
   key_rx |-> 6, key_ry |-> 2,
   legend_rel_x |-> 0, legend_rel_y |-> 0,
   draw_key_sides |-> FALSE,
   key_side_pars |-> [rel_x |-> 0, rel_y |-> 2, rel_w |-> 4, rel_h |-> 4,
                      rx |-> 4, ry |-> 4],
   shrink_wide_legends |-> 2,
   line_spacing |-> 6,
   glyph_tap_size |-> 8, glyph_hold_size |-> 4, glyph_shifted_size |-> 4,
   outer_pad_w |-> 8, outer_pad_h |-> 12,
   svg_style |-> "css"]

Cfgs == {[BaseCfg EXCEPT !.draw_key_sides = b] : b \in BOOLEAN}

\* physical_layout.PhysicalLayout: n keys in a row, the last one rotated
LayoutOf(n) ==
  [keys |-> [i \in 1..n |->
               [pos |-> Point(FP(4 * i - 2), FP(2)), width |-> FP(4), height |-> FP(4),
                rotation |-> IF i = n THEN 15 ELSE 0]],
   width |-> FP(4 * n),
   height |-> FP(4)]

Origins == {Point(0, 0), Point(2, 6)}

TapAlphabet == {"a", SP, "$"}

KeyTypes == {"", "held"}

LayoutKeys ==
  {LayoutKey(t, tap, hold, shifted) :
     t \in KeyTypes, tap \in SeqsUpTo(TapAlphabet, MaxTap),
     hold \in {<<>>, <<"h">>}, shifted \in {<<>>, <<"s">>}}

\* the keys the layers are made of
PlainKey == LayoutKey("", <<"a">>, <<>>, <<>>)
HeldKey == LayoutKey("held", <<"a", SP, "a">>, <<"h">>, <<>>)

GhostKey == LayoutKey("ghost", <<>>, <<>>, <<>>)

LayerKeySeqs(n) ==
  UNION {[1..m -> {PlainKey, HeldKey}] : m \in 0..n}

\* the keymaps: two layers, in either insertion order; every layer has one
\* LayoutKey per physical key
LayerL1(n) == [name |-> "L1", keys |-> [i \in 1..n |-> IF i = 1 THEN HeldKey ELSE PlainKey]]
LayerL2(n) == [name |-> "L2", keys |-> [i \in 1..n |-> IF i = 1 THEN GhostKey ELSE PlainKey]]

Keymaps(n) == { <<LayerL1(n), LayerL2(n)>>, <<LayerL2(n), LayerL1(n)>> }

\* the combos of each layer, each with the room it needs above and below
Combos ==
  [n \in {"L1", "L2"} |->
     IF n = "L1" THEN << [top |-> 4, bot |-> 2] >>
     ELSE << [top |-> 0, bot |-> 2], [top |-> 2, bot |-> 6] >>]

\* the draw_layers arguments: none, one layer, two in reverse order, one
\* twice, one that the keymap does not have
DrawLayersArgs ==
  { <<>>, <<"L2">>, <<"L2", "L1">>, <<"L1", "L1">>, <<"L1", "X">> }

\* the ghost_keys arguments: none, the last key, a valid one followed by one
\* past the end, a negative one
GhostKeysArgs(n) ==
  { <<>>, <<n - 1>>, <<0, n>>, <<0 - 1>> }

\* ---------------------------------------------------------------- Spec
\* One drawer and its sink; print_board is called up to MaxCalls times.

Init ==
  /\ cfg = BaseCfg
  /\ layout = LayoutOf(NumKeys)
  /\ layers \in Keymaps(NumKeys)
  /\ layers0 = layers
  /\ combos = Combos
  /\ out = <<>> /\ legends = <<>> /\ ncalls = 0
  /\ call = NoCall
  /\ args = NoCall

PrintBoard ==
  /\ ncalls < MaxCalls
  /\ \E draw_layers \in DrawLayersArgs, ghost_keys \in GhostKeysArgs(NumKeys),
        keys_only \in BOOLEAN, combos_only \in BOOLEAN :
       \E r \in {print_board(cfg, layout, layers, combos, draw_layers, keys_only,
                             combos_only, ghost_keys)} :
           /\ out' = out \o r.out
           /\ legends' = r.legends
           /\ layers' = r.keymap
           /\ call' = [op |-> "print_board", draw_layers |-> draw_layers,
                       keys_only |-> keys_only, combos_only |-> combos_only,
                       ghost_keys |-> ghost_keys, status |-> r.status,
                       out_before |-> out, origins |-> r.origins,
                       offsets |-> r.offsets, cursor |-> r.cursor]
  /\ ncalls' = ncalls + 1
  /\ UNCHANGED <<cfg, layout, combos, args, layers0>>

Next == PrintBoard

Spec == Init /\ [][Next]_vars

\* ------------------------------------------------------------- SpecKey
\* One drawer, freshly constructed, and one direct call of print_key,
\* print_layer or print_layer_header on the inputs drawn at the start.

InitKey ==
  /\ cfg \in Cfgs
  /\ layout = LayoutOf(NumKeys)
  /\ layers = <<>> /\ combos = <<>> /\ layers0 = <<>>
  /\ out = <<>> /\ legends = <<>> /\ ncalls = 0
  /\ call = NoCall
  /\ \/ \E p_0 \in Origins, i \in 1..NumKeys, k \in LayoutKeys :
          args = [op |-> "print_key", p_0 |-> p_0, key_ind |-> i - 1, l_key |-> k]
     \/ \E p_0 \in Origins, ks \in LayerKeySeqs(NumKeys + 1), e \in BOOLEAN :
          args = [op |-> "print_layer", p_0 |-> p_0, layer_keys |-> ks, empty_layer |-> e]
     \/ \E p \in Origins :
          args = [op |-> "print_layer_header", p |-> p, header |-> <<"L1">>]

PrintKey ==
  /\ call.op = "none" /\ args.op = "print_key"
  /\ out' = out \o print_key(cfg, args.p_0, layout.keys[args.key_ind + 1],
                             args.l_key, args.key_ind)
  /\ legends' = legends \o LegendCalls(args.l_key, args.key_ind)
  /\ call' = [op |-> "print_key", status |-> "ok"]
  /\ ncalls' = ncalls + 1
  /\ UNCHANGED <<cfg, layout, layers, combos, args, layers0>>

\* print_layer has no check of its own: it returns normally on every input
PrintLayer ==
  /\ call.op = "none" /\ args.op = "print_layer"
  /\ out' = out \o print_layer(cfg, layout, args.p_0, args.layer_keys, args.empty_layer)
  /\ legends' = legends \o print_layer_legends(layout, args.layer_keys, args.empty_layer)
  /\ call' = [op |-> "print_layer", status |-> "ok"]
  /\ ncalls' = ncalls + 1
  /\ UNCHANGED <<cfg, layout, layers, combos, args, layers0>>

PrintLayerHeader ==
  /\ call.op = "none" /\ args.op = "print_layer_header"
  /\ out' = out \o print_layer_header(cfg, args.p, args.header)
  /\ call' = [op |-> "print_layer_header", status |-> "ok"]
  /\ ncalls' = ncalls + 1
  /\ UNCHANGED <<cfg, layout, layers, combos, legends, args, layers0>>

NextKey == PrintKey \/ PrintLayer \/ PrintLayerHeader

SpecKey == InitKey /\ [][NextKey]_vars

\* the elements of the sink with a given tag
Tagged(o, tag) == SelectSeq(o, LAMBDA e : e.tag = tag)

HasClass(e, c) == \E i \in 1..Len(e.class) : e.class[i] = c

\* the key groups of the sink: the groups with the class key
KeyGroups(o) ==
  SelectSeq(o, LAMBDA e : e.tag = "g" /\ HasClass(e, "key"))

\* ------------------------------------------------- print_board claims

\* what the last call appended to the sink
Emitted == SubSeq(out, Len(call.out_before) + 1, Len(out))

\* the layer groups of the sink: the groups that are not key groups
LayerGroups(o) ==
  SelectSeq(o, LAMBDA e : e.tag = "g" /\ ~HasClass(e, "key"))

LayerGroupNames(o) ==
  LET gs == LayerGroups(o)
  IN  [i \in 1..Len(gs) |->
         CHOOSE n \in Range(LayerNamesOf(layers0)) : gs[i].class[1] = "layer-" \o n]

KeyGroupsAt(o, k) ==
  SelectSeq(KeyGroups(o), LAMBDA e : HasClass(e, "keypos-" \o ToString(k)))

BoardOk == call.op = "print_board" /\ call.status = "ok"

UnknownLayerRequested ==
  \E i \in 1..Len(call.draw_layers) :
    call.draw_layers[i] \notin Range(LayerNamesOf(layers0))

GhostOutOfRange ==
  \E j \in 1..Len(call.ghost_keys) :
    call.ghost_keys[j] < 0 \/ call.ghost_keys[j] >= Len(layout.keys)

\* ---- C1

\* C1: a print_board call whose draw_layers names a layer the keymap does
\* not have, or whose ghost_keys has an index outside [0, key-count), fails,
\* and the sink is exactly as it was before the call.
C1_InvalidSelectionWritesNothing ==
  (call.op = "print_board" /\ (UnknownLayerRequested \/ GhostOutOfRange)) =>
    /\ call.status = "AssertionError"
    /\ out = call.out_before

C1_Witness ==
  /\ call.op = "print_board"
  /\ GhostOutOfRange /\ ~UnknownLayerRequested
  /\ call.ghost_keys[1] = 0
  /\ call.status = "AssertionError"
  /\ call.out_before # <<>>
  /\ out = call.out_before

\* ---- C2

RECURSIVE CountGhostTyped(_)
CountGhostTyped(ls) ==
  IF ls = <<>> THEN 0
  ELSE Len(SelectSeq(Head(ls).keys, LAMBDA k : k.type = "ghost")) + CountGhostTyped(Tail(ls))

\* the layers of the keymap, as first constructed, that a call draws
DrawnOriginals ==
  IF call.draw_layers = <<>> THEN layers0
  ELSE SelectSeq(layers0, LAMBDA l : l.name \in Range(call.draw_layers))

\* C2: after any sequence of print_board calls the keymap's layers are what
\* they were before the first call, so a call without ghost_keys draws as
\* ghost only the keys the keymap itself types as ghost.
C2_KeymapUnchanged ==
  /\ layers = layers0
  /\ (BoardOk /\ call.ghost_keys = <<>> /\ ~call.combos_only) =>
       Len(SelectSeq(KeyGroups(Emitted), LAMBDA e : HasClass(e, "ghost")))
         = CountGhostTyped(DrawnOriginals)

C2_Witness ==
  /\ BoardOk /\ ncalls = 2
  /\ call.ghost_keys = <<>> /\ ~call.combos_only
  /\ \E i \in 1..Len(call.out_before) :
       /\ call.out_before[i].tag = "g"
       /\ HasClass(call.out_before[i], "ghost")
       /\ HasClass(call.out_before[i], "keypos-" \o ToString(NumKeys - 1))
  /\ KeyGroupsAt(Emitted, NumKeys - 1) # <<>>
  /\ \A i \in 1..Len(KeyGroupsAt(Emitted, NumKeys - 1)) :
       ~HasClass(KeyGroupsAt(Emitted, NumKeys - 1)[i], "ghost")

\* ---- C3

\* C3: in every successful print_board call, whatever keys_only and
\* combos_only are, the key group of every valid ghost position carries the
\* class ghost in every drawn layer.
C3_GhostInEveryDrawnLayer ==
  BoardOk =>
    \A j \in 1..Len(call.ghost_keys) :
      LET gs == KeyGroupsAt(Emitted, call.ghost_keys[j])
      IN  /\ Len(gs) = Len(LayerGroups(Emitted))
          /\ \A i \in 1..Len(gs) : HasClass(gs[i], "ghost")

\* ---- C8

RECURSIVE SumOver(_, _)
SumOver(names, f) ==
  IF names = <<>> THEN 0 ELSE f[Head(names)][1] + f[Head(names)][2] + SumOver(Tail(names), f)

\* C8: the height in the document root, and in its viewBox, is
\* N * layout-height + (N + 1) * outer_pad_h + the offsets of the drawn
\* layers, N being the number of layers left after the draw_layers filter.
C8_BoardHeight ==
  BoardOk =>
    LET svg == Emitted[1]
        names == LayerGroupNames(Emitted)
        N == Len(names)
        offs == SumOver(names, call.offsets)
    IN  /\ svg.tag = "svg"
        /\ N = Len(DrawnOriginals)
        /\ svg.height = N * layout.height + (N + 1) * cfg.outer_pad_h + offs
        /\ svg.viewBox[4] = svg.height
        /\ (N = 2 /\ offs = 0) => svg.height = 2 * layout.height + 3 * cfg.outer_pad_h

C8_Witness ==
  /\ BoardOk
  /\ call.draw_layers = <<"L2">>
  /\ Len(LayerGroups(Emitted)) = 1
  /\ call.offsets["L2"] = <<2, 6>>
  /\ Emitted[1].height = layout.height + 2 * cfg.outer_pad_h + 8

\* ---- C9

\* C9: the layer groups emitted are the requested names, each once, in the
\* keymap's insertion order; all the layers when draw_layers is absent.
C9_LayersInInsertionOrder ==
  BoardOk =>
    LayerGroupNames(Emitted) =
      IF call.draw_layers = <<>> THEN LayerNamesOf(layers0)
      ELSE SelectSeq(LayerNamesOf(layers0), LAMBDA n : n \in Range(call.draw_layers))

C9_Witness ==
  /\ BoardOk
  /\ call.draw_layers = <<"L2", "L1">>
  /\ LayerNamesOf(layers0) = <<"L1", "L2">>
  /\ LayerGroupNames(Emitted) = <<"L1", "L2">>

\* ---- C10

\* C10: the origin of the i-th drawn layer (from 0) is (i + 1) * outer_pad_h
\* + i * layout-height + the offsets of the earlier layers + its own top
\* offset; the bands of consecutive layers do not overlap; the cursor after
\* the last layer plus one outer_pad_h is the height in the document root.
C10_CursorMatchesHeight ==
  BoardOk =>
    LET names == LayerGroupNames(Emitted)
        N == Len(names)
        H == layout.height
    IN  /\ Len(call.origins) = N
        /\ \A i \in 1..N :
             /\ call.origins[i].x = cfg.outer_pad_w
             /\ call.origins[i].y =
                  i * cfg.outer_pad_h + (i - 1) * H
                  + SumOver(SubSeq(names, 1, i - 1), call.offsets)
                  + call.offsets[names[i]][1]
        /\ \A i \in 1..(N - 1) :
             call.origins[i].y + H + call.offsets[names[i]][2] <= call.origins[i + 1].y
        /\ call.cursor.y + cfg.outer_pad_h = Emitted[1].height

C10_Witness ==
  /\ BoardOk
  /\ Len(call.origins) = 2
  /\ call.offsets[LayerGroupNames(Emitted)[1]][2] > 0
  /\ call.origins[2].y > call.origins[1].y + layout.height

\* ---- C4

\* C4: print_layer draws one key per physical key, and rejects a layer
\* sequence shorter than the physical layout instead of drawing a part of it.
C4_ShortLayerRejected ==
  call.op = "print_layer" =>
    /\ call.status = "ok" => Len(KeyGroups(out)) = Len(layout.keys)
    /\ Len(args.layer_keys) < Len(layout.keys) => call.status = "error"

\* ---- C6

\* C6: the shift print_key passes for the tap legend is -1 exactly when the
\* tap legend has two lines, shifted is present and hold is absent, +1
\* exactly when it has two lines, hold is present and shifted is absent,
\* and 0 otherwise.
C6_TapShift ==
  call.op = "print_key" =>
    LET tap == legends[1]
        two == Len(tap.words) = 2
        hold == args.l_key.hold # <<>>
        shifted == args.l_key.shifted # <<>>
    IN  /\ tap.legend_type = "tap"
        /\ tap.shift \in {0 - 1, 0, 1}
        /\ (tap.shift = 0 - 1) <=> (two /\ shifted /\ ~hold)
        /\ (tap.shift = 1) <=> (two /\ hold /\ ~shifted)
        /\ \A e \in {out[i] : i \in 1..Len(out)} :
             (e.tag = "tspan" /\ e.dy <= 0) =>
               e.dy = 0 - (Len(tap.words) - 1) * Half(cfg.line_spacing * (1 + tap.shift))

C6_Witness ==
  /\ call.op = "print_key"
  /\ Len(legends[1].words) = 2
  /\ args.l_key.shifted # <<>> /\ args.l_key.hold = <<>>
  /\ legends[1].shift = 0 - 1
  /\ Len(Tagged(out, "tspan")) = 2
  /\ Tagged(out, "tspan")[1].dy = 0

\* ---- C7

\* the integer nearest to v / Scale, a tie going away from zero
RoundHalfAwayInt(v) ==
  LET q == v \div Scale
      r == v % Scale
  IN  IF 2 * r < Scale THEN q
      ELSE IF 2 * r > Scale THEN q + 1
      ELSE IF v >= 0 THEN q + 1 ELSE q

Nearest(v) == FP(RoundHalfAwayInt(v))

\* C7: every coordinate print_key and print_layer_header emit (rectangle
\* x, y, width, height and radii, text x and y, tspan x, rotation centre,
\* glyph x and y, layer-header x and y) is its mathematical value rounded to
\* the nearest integer, a tie going away from zero.
C7_CoordinatesRounded ==
  /\ call.op = "print_layer_header" =>
       /\ out[1].x = Nearest(args.p.x)
       /\ out[1].y = Nearest(args.p.y)
  /\ call.op = "print_key" =>
       LET p_key == layout.keys[args.key_ind + 1]
           P == PAdd(args.p_0, p_key.pos)
           D == Point(p_key.width - 2 * cfg.inner_pad_w, p_key.height - 2 * cfg.inner_pad_h)
           side == cfg.key_side_pars
           A == IF cfg.draw_key_sides
                THEN PSub(PAdd(P, Point(cfg.legend_rel_x, cfg.legend_rel_y)),
                          Point(side.rel_x, side.rel_y))
                ELSE PAdd(P, Point(cfg.legend_rel_x, cfg.legend_rel_y))
           E == Half(p_key.height) - cfg.inner_pad_h - cfg.small_pad
           Anchor(e) == IF HasClass(e, "tap") THEN A
                        ELSE IF HasClass(e, "hold") THEN PAdd(P, Point(0, E))
                        ELSE PSub(P, Point(0, E))
           Slot(e) == IF HasClass(e, "tap") THEN "tap"
                      ELSE IF HasClass(e, "hold") THEN "hold" ELSE "shifted"
       IN  /\ out[1].transform # <<>> =>
                /\ out[1].transform[2] = Nearest(P.x)
                /\ out[1].transform[3] = Nearest(P.y)
           /\ out[2].tag = "rect"
           /\ out[2].x = Nearest(P.x - Half(D.x))
           /\ out[2].y = Nearest(P.y - Half(D.y))
           /\ out[2].width = Nearest(D.x)
           /\ out[2].height = Nearest(D.y)
           /\ out[2].rx = Nearest(cfg.key_rx)
           /\ out[2].ry = Nearest(cfg.key_ry)
           /\ cfg.draw_key_sides =>
                /\ out[3].tag = "rect"
                /\ out[3].x = Nearest(P.x - side.rel_x - Half(D.x - side.rel_w))
                /\ out[3].y = Nearest(P.y - side.rel_y - Half(D.y - side.rel_h))
                /\ out[3].width = Nearest(D.x - side.rel_w)
                /\ out[3].height = Nearest(D.y - side.rel_h)
                /\ out[3].rx = Nearest(side.rx)
                /\ out[3].ry = Nearest(side.ry)
           /\ \A i \in 1..Len(out) :
                /\ out[i].tag = "text" =>
                     /\ out[i].x = Nearest(Anchor(out[i]).x)
                     /\ out[i].y = Nearest(Anchor(out[i]).y)
                /\ out[i].tag = "tspan" => out[i].x = Nearest(A.x)
                /\ out[i].tag = "use" =>
                     LET dim == get_glyph_dimensions(cfg, out[i].href, Slot(out[i]))
                     IN  /\ out[i].x = Nearest(Anchor(out[i]).x - Half(dim[1]))
                         /\ out[i].y = Nearest(Anchor(out[i]).y - dim[3])

\* ------------------------------------------------------------ SpecText

Idle ==
  /\ cfg = <<>> /\ layout = <<>> /\ layers = <<>> /\ combos = <<>>
  /\ out = <<>> /\ legends = <<>> /\ ncalls = 0 /\ layers0 = <<>>
  /\ call = NoCall

InitText ==
  /\ Idle
  /\ \E t \in Texts : args = [text |-> t]

SplitText ==
  /\ call.op = "none"
  /\ call' = [op |-> "_split_text", text |-> args.text, words |-> _split_text(args.text)]
  /\ UNCHANGED <<cfg, layout, layers, combos, out, legends, ncalls, args, layers0>>

NextText == SplitText

SpecText == InitText /\ [][NextText]_vars

\* ---- C5

\* the tokens of left and right with the last of left and the first of right
\* joined by exactly one space
JoinAt(left, right) ==
  SubSeq(left, 1, Len(left) - 1)
    \o <<left[Len(left)] \o <<SP>> \o right[1]>>
    \o Tail(right)

\* text = u x SP^n y v at 1-based position i of x, x and y not whitespace
RunAt(text, i, n) ==
  /\ i >= 1 /\ i + n + 1 <= Len(text)
  /\ text[i] \notin Whitespace
  /\ text[i + n + 1] \notin Whitespace
  /\ \A j \in (i + 1)..(i + n) : text[j] = SP

\* C5 (as stated): at every run of two or more spaces between non-space
\* characters, _split_text does not break the line and joins both sides in
\* one token with exactly one space.
C5_AnyRunJoined ==
  call.op = "_split_text" =>
    \A i \in 1..Len(call.text) : \A n \in 2..Len(call.text) :
      RunAt(call.text, i, n) =>
        call.words = JoinAt(_split_text(SubSeq(call.text, 1, i)),
                            _split_text(SubSeq(call.text, i + n + 1, Len(call.text))))

\* C5 (amended): at every run of exactly two spaces between non-whitespace
\* characters, _split_text does not break the line: both sides end up in
\* one token, joined by exactly one space.
C5_DoubleSpaceJoined ==
  call.op = "_split_text" =>
    \A i \in 1..Len(call.text) :
      RunAt(call.text, i, 2) =>
        call.words = JoinAt(_split_text(SubSeq(call.text, 1, i)),
                            _split_text(SubSeq(call.text, i + 3, Len(call.text))))

C5_Witness ==
  /\ call.op = "_split_text"
  /\ call.text = <<"a", SP, SP, "b", SP>>
  /\ call.words = <<<<"a", SP, "b">>>>

====
